---- MODULE Spec2Model ----
(***************************************************************************)
(* A model of horned.py: the preforking manager (HornedManager), its       *)
(* manager-side worker handles (HornedWorker), the forked children, and    *)
(* the worker process loop (HornedWorkerProcess).                          *)
(*                                                                         *)
(* Spec        the manager, its handles and the children it forks, from    *)
(*             HornedManager(config).run().                                *)
(* WorkerSpec  one HornedWorkerProcess.run() on a constructed worker       *)
(*             object, with the shared listener and its sibling workers.   *)
(*             The constructor raises in every forked child (C_Construct), *)
(*             so Spec never reaches run; WorkerSpec takes run as its own  *)
(*             entry point.                                                *)
(* HeaderSpec  HornedWorkerProcess.send_headers on its own, over bounded   *)
(*             header lists.                                               *)
(* UnquoteSpec urlunquote on its own, over bounded paths.                  *)
(* StreamSpec  IOStream.read / read_until / readline on one stream, over   *)
(*             bounded input and a bounded number of calls.                *)
(***************************************************************************)
EXTENDS Integers, Sequences, FiniteSets, TLC

\* ---------------------------------------------------------------- bounds
\* Number of forks the manager may perform in one run.
MaxForks == 3
\* Target pool size (config "worker_processes"); the default is 4.
WorkerProcesses == 2
\* Number of 100 ms polls of reap_workers that fit in its 10 s deadline
\* (100 in the program, scaled down).
DeadlinePolls == 2

\* Connections clients make to the listener in one run.
MaxConns == 2
\* Signals delivered to the worker process in one run.
MaxSignals == 1
\* Operations the application performs in one request (start_response
\* calls, write-sink calls, chunks yielded).
MaxAppOps == 3
\* Length of the request bytes a client sends before closing its side.
MaxReqLen == 3
\* Headers in the list an application passes to start_response.
MaxHeaders == 3
\* Length of the path given to urlunquote.
MaxPathLen == 3
\* Bytes the peer sends on a connection before closing its side.
MaxStreamLen == 3
\* Calls made on one IOStream.
MaxCalls == 2
\* Largest size given to IOStream.read.
MaxReadSize == 2

Handles == 1..MaxForks
\* Byte lengths of the body chunks an application produces.
ChunkLens == {0, 1}
\* Status strings an application passes to start_response; 0 is None.
Statuses == {1, 2}
\* Request bytes: "a" any other byte, " " a space, "D" the CRLFCRLF.
Bytes == {"a", " ", "D"}

VARIABLES
    \* ---- manager process (HornedManager)
    mpc,        \* position of the manager's main flow
    malive,     \* self.alive
    workers,    \* self.workers: the set of live handles
    hpid,       \* hpid[h]: HornedWorker.pid has been assigned (not None)
    todo,       \* handles still to visit in the current for-loop
    cur,        \* handle the current statement works on (0: none)
    polls,      \* 100 ms sleeps done since reap_workers took t
    mexit,      \* how the manager process ended ("running" while it runs)
    termSent,   \* handles the manager's die_immediately sent SIGTERM to
    cyc,        \* cyc[h]: supervision cycles begun since h's child exited
    \* ---- forked children, before HornedWorkerProcess.run
    cstate,     \* "none", "start", "exited" (zombie) or "reaped"
    cexit,      \* how the child ended
    csig,       \* signals sent to the child and not yet handled
    cworkers,   \* the child's copy of self.workers: siblings with a pid
    csent,      \* csent[h]: the siblings child h has called os.kill for
    \* ---- one worker process (HornedWorkerProcess) and its listener
    wpc,        \* position of the worker's main flow
    walive,     \* self.alive
    pipe,       \* bytes written to the self-pipe and never read
    socks,      \* local `socks` of run: {"unbound"} or the last ready set
    conn,       \* local `connection` of run: "unbound", "open", "closed"
    pending,    \* connections queued on the shared listener
    conns,      \* connections clients have made so far
    wrequests,  \* self.requests
    werrors,    \* self.errors
    wexit,      \* how the worker process ended ("running" while it runs)
    nsig,       \* signals delivered to the worker so far
    nterm,      \* SIGTERM / SIGINT among them
    accessLog,  \* self.access_log is set
    req,        \* the request in hand: parse result, exception, counting
    headers_sent, \* self.headers_sent
    response,   \* response[0] of execute_request (0: None)
    status,     \* the status execute_request handed to send_response
    data,       \* the list behind the write-sink (chunk lengths)
    src,        \* the source send_response iterates, and the index in data
    length,     \* local `length` of send_response
    logged,     \* body length given to log.request (-1: no line)
    appops,     \* operations the application has performed
    wbuf,       \* stream.write_buffer
    wire,       \* what the socket has been given, in order
    hook,       \* the iterable the application returned has a close
    closes,     \* calls made to that close
    appbytes,   \* bytes the application has produced in execute_request
    \* ---- the pure functions, run on their own
    headers,    \* send_headers: the application's header list
    hnext,      \* send_headers: index of the next header of the for-loop
    path,       \* urlunquote: the argument it was called with
    quoted,     \* urlunquote: local `quoted`
    unquoted,   \* urlunquote: local `unquoted`
    read_buffer, \* IOStream: self.read_buffer
    incoming,   \* IOStream: bytes the peer sent that recv has yet to return
    received,   \* IOStream: bytes recv has returned so far
    returned,   \* IOStream: what the calls have returned, in call order
    scall,      \* IOStream: the call in progress
    slast,      \* IOStream: how the last call ended
    ncalls      \* IOStream: calls made so far

mvars == <<mpc, malive, workers, hpid, todo, cur, polls, mexit, termSent, cyc>>
cvars == <<cstate, cexit, csig, cworkers, csent>>
lvars == <<wpc, walive, pipe, socks, conn, pending, conns, wrequests, werrors,
           wexit, nsig, nterm, accessLog>>
wrest == <<walive, pipe, socks, conn, pending, conns, wrequests,
                   werrors, wexit, nsig, nterm, accessLog>>
rvars == <<req, headers_sent, response, status, data, src, length, logged,
           appops, wbuf, wire, hook, closes, appbytes>>
svars == <<read_buffer, incoming, received, returned, scall, slast, ncalls>>
pvars == <<headers, hnext, path, quoted, unquoted, svars>>
vars == <<mvars, cvars, lvars, rvars, pvars>>

Running == mexit = "running"

\* os.kill(pid, sig) on the children in S: a zombie ignores it.
Kill(S, sig) ==
    [h \in Handles |->
        IF h \in S /\ cstate[h] = "start" THEN csig[h] \cup {sig} ELSE csig[h]]

\* Mutant of WaitPid: the non-blocking wait never reports an exit.
WaitPid_NeverExited(h) == FALSE

\* Mutant of WaitPid: the wait reports an exit whatever the child does.
WaitPid_AlwaysExited(h) == TRUE

\* os.waitpid(pid, os.WNOHANG) returns a non-zero pid: the child has exited.
WaitPid(h) == cstate[h] = "exited"

\* The request state handle_request starts from.
NoRequest == [parsed |-> "none", exc |-> "none", counted |-> "none"]

FreshRequest ==
    /\ req = NoRequest
    /\ headers_sent = FALSE
    /\ response = 0
    /\ status = 0
    /\ data = <<>>
    /\ src = <<"none", 0, -1>>
    /\ length = 0
    /\ logged = -1
    /\ appops = 0
    /\ wbuf = <<>>
    /\ wire = <<>>
    /\ hook = FALSE
    /\ closes = 0
    /\ appbytes = 0

\* No pure function is being run on its own.
\* No call on a stream is in progress.
NoCall == [op |-> "none", size |-> 0, delim |-> <<>>]

\* IOStream.__init__, before anything has been received.
NoStream ==
    /\ read_buffer = <<>>
    /\ incoming = <<>>
    /\ received = <<>>
    /\ returned = <<>>
    /\ scall = NoCall
    /\ slast = "none"
    /\ ncalls = 0

NoPure ==
    /\ headers = <<>>
    /\ hnext = 0
    /\ path = <<>>
    /\ quoted = <<>>
    /\ unquoted = <<>>
    /\ NoStream

\* Spec follows no worker past its construction.
NoWorker ==
    /\ wpc = "none"
    /\ walive = TRUE
    /\ pipe = 0
    /\ socks = {"unbound"}
    /\ conn = "unbound"
    /\ pending = 0
    /\ conns = 0
    /\ wrequests = 0
    /\ werrors = 0
    /\ wexit = "none"
    /\ nsig = 0
    /\ nterm = 0
    /\ accessLog = TRUE
    /\ FreshRequest
    /\ NoPure

Init ==
    /\ mpc = "loop"
    /\ malive = TRUE
    /\ workers = {}
    /\ hpid = [h \in Handles |-> FALSE]
    /\ todo = {}
    /\ cur = 0
    /\ polls = 0
    /\ mexit = "running"
    /\ termSent = {}
    /\ cyc = [h \in Handles |-> 0]
    /\ cstate = [h \in Handles |-> "none"]
    /\ cexit = [h \in Handles |-> "none"]
    /\ csig = [h \in Handles |-> {}]
    /\ cworkers = [h \in Handles |-> {}]
    /\ csent = [h \in Handles |-> {}]
    /\ NoWorker

\* --------------------------------------------------------- HornedManager
\* run: `while self.alive:`; entering the body starts cleanup_workers on a
\* copy of the set, leaving the loop starts stop_workers.
M_LoopCheck ==
    /\ Running /\ mpc = "loop"
    /\ todo' = workers
    /\ IF malive
       THEN /\ mpc' = "cleanup"
            /\ cyc' = [h \in Handles |->
                        IF h \in workers /\ cstate[h] = "exited"
                        THEN cyc[h] + 1 ELSE cyc[h]]
       ELSE /\ mpc' = "stop"
            /\ cyc' = cyc
    /\ UNCHANGED <<malive, workers, hpid, cur, polls, mexit, termSent, cvars>>
    /\ UNCHANGED <<lvars, rvars, pvars>>

\* cleanup_workers: os.waitpid(worker.pid, os.WNOHANG) for one handle.
M_CleanupWait(h) ==
    /\ Running /\ mpc = "cleanup" /\ h \in todo
    /\ IF WaitPid(h)
       THEN /\ cstate' = [cstate EXCEPT ![h] = "reaped"]
            /\ cur' = h
            /\ mpc' = "cleanup_rm"
            /\ todo' = todo
       ELSE /\ todo' = todo \ {h}
            /\ UNCHANGED <<cstate, cur, mpc>>
    /\ UNCHANGED <<malive, workers, hpid, polls, mexit, termSent, cyc,
                   cexit, csig, cworkers, csent>>
    /\ UNCHANGED <<lvars, rvars, pvars>>

\* cleanup_workers: self.workers.remove(worker) after a non-zero pid.
M_CleanupRemove ==
    /\ Running /\ mpc = "cleanup_rm"
    /\ workers' = workers \ {cur}
    /\ todo' = todo \ {cur}
    /\ cur' = 0
    /\ mpc' = "cleanup"
    /\ UNCHANGED <<malive, hpid, polls, mexit, termSent, cyc, cvars>>
    /\ UNCHANGED <<lvars, rvars, pvars>>

\* cleanup_workers returns; run calls spawn_workers.
M_CleanupDone ==
    /\ Running /\ mpc = "cleanup" /\ todo = {}
    /\ mpc' = "spawn"
    /\ UNCHANGED <<malive, workers, hpid, todo, cur, polls, mexit, termSent,
                   cyc, cvars>>
    /\ UNCHANGED <<lvars, rvars, pvars>>

\* spawn_workers: the while test, HornedWorker(...) and self.workers.add.
M_SpawnAdd(h) ==
    /\ Running /\ mpc = "spawn"
    /\ Cardinality(workers) < WorkerProcesses
    /\ cstate[h] = "none" /\ h \notin workers
    /\ \A g \in Handles : g < h => (cstate[g] # "none" \/ g \in workers)
    /\ workers' = workers \cup {h}
    /\ cur' = h
    /\ mpc' = "spawn_fork"
    /\ UNCHANGED <<malive, hpid, todo, polls, mexit, termSent, cyc, cvars>>
    /\ UNCHANGED <<lvars, rvars, pvars>>

\* HornedWorker.run: os.fork(); the child starts with a copy of the
\* manager's memory, in which its own handle has no pid.
M_Fork ==
    /\ Running /\ mpc = "spawn_fork"
    /\ cstate' = [cstate EXCEPT ![cur] = "start"]
    /\ cworkers' = [cworkers EXCEPT ![cur] = {w \in workers : hpid[w]}]
    /\ mpc' = "spawn_pid"
    /\ UNCHANGED <<malive, workers, hpid, todo, cur, polls, mexit, termSent,
                   cyc, cexit, csig, csent>>
    /\ UNCHANGED <<lvars, rvars, pvars>>

\* HornedWorker.run, parent side: self.pid = pid.
M_SetPid ==
    /\ Running /\ mpc = "spawn_pid"
    /\ hpid' = [hpid EXCEPT ![cur] = TRUE]
    /\ cur' = 0
    /\ mpc' = "spawn"
    /\ UNCHANGED <<malive, workers, todo, polls, mexit, termSent, cyc, cvars>>
    /\ UNCHANGED <<lvars, rvars, pvars>>

\* spawn_workers returns with the pool full; run reaches time.sleep(1).
M_SpawnDone ==
    /\ Running /\ mpc = "spawn"
    /\ Cardinality(workers) >= WorkerProcesses
    /\ mpc' = "sleep"
    /\ UNCHANGED <<malive, workers, hpid, todo, cur, polls, mexit, termSent,
                   cyc, cvars>>
    /\ UNCHANGED <<lvars, rvars, pvars>>

\* time.sleep(1) returns (on time, or early when a signal interrupts it).
M_Sleep ==
    /\ Running /\ mpc = "sleep"
    /\ mpc' = "loop"
    /\ UNCHANGED <<malive, workers, hpid, todo, cur, polls, mexit, termSent,
                   cyc, cvars>>
    /\ UNCHANGED <<lvars, rvars, pvars>>

\* stop_workers: worker.die_gracefully() sends SIGQUIT to one child.
M_StopWorker(h) ==
    /\ Running /\ mpc = "stop" /\ h \in todo
    /\ csig' = Kill({h}, "QUIT")
    /\ todo' = todo \ {h}
    /\ UNCHANGED <<mpc, malive, workers, hpid, cur, polls, mexit, termSent,
                   cyc, cstate, cexit, cworkers, csent>>
    /\ UNCHANGED <<lvars, rvars, pvars>>

\* stop_workers returns; reap_workers takes t = time.time().
M_StopDone ==
    /\ Running /\ mpc = "stop" /\ todo = {}
    /\ mpc' = "reap"
    /\ polls' = 0
    /\ UNCHANGED <<malive, workers, hpid, todo, cur, mexit, termSent, cyc,
                   cvars>>
    /\ UNCHANGED <<lvars, rvars, pvars>>

\* reap_workers: `while self.workers:` and the deadline test.  Past the
\* deadline the log call evaluates len(self.children), an attribute the
\* manager does not have: AttributeError ends the process.  With the set
\* empty run logs "Manager done" and returns.
M_ReapCheck ==
    /\ Running /\ mpc = "reap"
    /\ IF workers = {}
       THEN /\ mpc' = "done" /\ mexit' = "done" /\ todo' = todo
       ELSE IF polls > DeadlinePolls
       THEN /\ mpc' = "done" /\ mexit' = "AttributeError" /\ todo' = todo
       ELSE /\ mpc' = "reap_wait" /\ mexit' = mexit /\ todo' = workers
    /\ UNCHANGED <<malive, workers, hpid, cur, polls, termSent, cyc, cvars>>
    /\ UNCHANGED <<lvars, rvars, pvars>>

\* reap_workers: worker.wait(os.WNOHANG) for one handle.
M_ReapWait(h) ==
    /\ Running /\ mpc = "reap_wait" /\ h \in todo
    /\ IF WaitPid(h)
       THEN /\ cstate' = [cstate EXCEPT ![h] = "reaped"]
            /\ cur' = h
            /\ mpc' = "reap_rm"
            /\ todo' = todo
       ELSE /\ todo' = todo \ {h}
            /\ UNCHANGED <<cstate, cur, mpc>>
    /\ UNCHANGED <<malive, workers, hpid, polls, mexit, termSent, cyc,
                   cexit, csig, cworkers, csent>>
    /\ UNCHANGED <<lvars, rvars, pvars>>

\* reap_workers: self.workers.remove(worker).
M_ReapRemove ==
    /\ Running /\ mpc = "reap_rm"
    /\ workers' = workers \ {cur}
    /\ todo' = todo \ {cur}
    /\ cur' = 0
    /\ mpc' = "reap_wait"
    /\ UNCHANGED <<malive, hpid, polls, mexit, termSent, cyc, cvars>>
    /\ UNCHANGED <<lvars, rvars, pvars>>

\* reap_workers: time.sleep(0.1) at the end of one pass.
M_ReapSleep ==
    /\ Running /\ mpc = "reap_wait" /\ todo = {}
    /\ polls' = polls + 1
    /\ mpc' = "reap"
    /\ UNCHANGED <<malive, workers, hpid, todo, cur, mexit, termSent, cyc,
                   cvars>>
    /\ UNCHANGED <<lvars, rvars, pvars>>

\* die_gracefully: SIGQUIT reaches the manager at any point of its flow.
M_DieGracefully ==
    /\ Running /\ malive
    /\ malive' = FALSE
    /\ UNCHANGED <<mpc, workers, hpid, todo, cur, polls, mexit, termSent,
                   cyc, cvars>>
    /\ UNCHANGED <<lvars, rvars, pvars>>

\* Handles on which HornedWorker.die_immediately raises: "%d" % None is a
\* TypeError, os.kill of a pid already waited for is an OSError.
NoPid(S) == {w \in S : ~hpid[w]}
Reaped(S) == {w \in S : hpid[w] /\ cstate[w] = "reaped"}

\* die_immediately: SIGTERM or SIGINT reaches the manager at any point of
\* its flow.  The handler walks list(self.workers) in the set's order; the
\* first handle that raises ends the walk and the exception ends the
\* process, otherwise sys.exit(0).
M_DieImmediately ==
    /\ Running
    /\ \/ /\ NoPid(workers) \cup Reaped(workers) = {}
          /\ termSent' = termSent \cup workers
          /\ csig' = Kill(workers, "TERM")
          /\ mexit' = "exit0"
       \/ \E b \in NoPid(workers) \cup Reaped(workers) :
          \E S \in SUBSET (workers \ (NoPid(workers) \cup Reaped(workers))) :
             /\ termSent' = termSent \cup S
             /\ csig' = Kill(S, "TERM")
             /\ mexit' = IF b \in NoPid(workers) THEN "TypeError" ELSE "OSError"
    /\ mpc' = "done"
    /\ UNCHANGED <<malive, workers, hpid, todo, cur, polls, cyc, cstate,
                   cexit, cworkers, csent>>
    /\ UNCHANGED <<lvars, rvars, pvars>>

\* ------------------------------------------------------ forked children
\* HornedWorkerProcess.__init__ in the child: after the application is
\* resolved (get_app imports it, which may take any length of time, the
\* child keeping the manager's signal handlers meanwhile) the constructor
\* calls self.get("access_log"); the class has no such method, so the
\* AttributeError unwinds the child, which ends with a traceback.
C_Construct(h) ==
    /\ cstate[h] = "start"
    /\ cstate' = [cstate EXCEPT ![h] = "exited"]
    /\ cexit' = [cexit EXCEPT ![h] = "AttributeError"]
    /\ csig' = [csig EXCEPT ![h] = {}]
    /\ UNCHANGED <<mvars, cworkers, csent>>
    /\ UNCHANGED <<lvars, rvars, pvars>>

\* SIGQUIT in a child that still has the manager's handlers: the copy of
\* HornedManager.die_gracefully clears the copy of the manager's flag.
C_InheritedQuit(h) ==
    /\ cstate[h] = "start" /\ "QUIT" \in csig[h]
    /\ csig' = [csig EXCEPT ![h] = @ \ {"QUIT"}]
    /\ UNCHANGED <<mvars, cstate, cexit, cworkers, csent>>
    /\ UNCHANGED <<lvars, rvars, pvars>>

\* SIGTERM in a child that still has the manager's handlers: the copy of
\* HornedManager.die_immediately signals siblings from the child's copy of
\* the set until it reaches the child's own handle (pid None: TypeError)
\* or a sibling already waited for (OSError).
C_InheritedTerm(h) ==
    /\ cstate[h] = "start" /\ "TERM" \in csig[h]
    /\ \E S \in SUBSET {s \in cworkers[h] : cstate[s] # "reaped"} :
          /\ csig' = [Kill(S, "TERM") EXCEPT ![h] = {}]
          /\ csent' = [csent EXCEPT ![h] = S]
    /\ \E e \in {"TypeError"} \cup
                 (IF \E s \in cworkers[h] : cstate[s] = "reaped"
                  THEN {"OSError"} ELSE {}) :
          cexit' = [cexit EXCEPT ![h] = e]
    /\ cstate' = [cstate EXCEPT ![h] = "exited"]
    /\ UNCHANGED <<mvars, cworkers>>
    /\ UNCHANGED <<lvars, rvars, pvars>>

\* A child is killed from outside (SIGKILL).
C_Killed(h) ==
    /\ cstate[h] = "start"
    /\ cstate' = [cstate EXCEPT ![h] = "exited"]
    /\ cexit' = [cexit EXCEPT ![h] = "SIGKILL"]
    /\ csig' = [csig EXCEPT ![h] = {}]
    /\ UNCHANGED <<mvars, cworkers, csent>>
    /\ UNCHANGED <<lvars, rvars, pvars>>

\* ------------------------------------------------- HornedWorkerProcess
WRunning == wexit = "running"

\* The worker as HornedWorkerProcess.__init__ leaves it (handlers
\* installed, self-pipe empty, counters zero), entering run.
InitWorker ==
    /\ mpc = "none"
    /\ malive = TRUE
    /\ workers = {}
    /\ hpid = [h \in Handles |-> FALSE]
    /\ todo = {}
    /\ cur = 0
    /\ polls = 0
    /\ mexit = "none"
    /\ termSent = {}
    /\ cyc = [h \in Handles |-> 0]
    /\ cstate = [h \in Handles |-> "none"]
    /\ cexit = [h \in Handles |-> "none"]
    /\ csig = [h \in Handles |-> {}]
    /\ cworkers = [h \in Handles |-> {}]
    /\ csent = [h \in Handles |-> {}]
    /\ wpc = "loop"
    /\ walive = TRUE
    /\ pipe = 0
    /\ socks = {"unbound"}
    /\ conn = "unbound"
    /\ pending = 0
    /\ conns = 0
    /\ wrequests = 0
    /\ werrors = 0
    /\ wexit = "running"
    /\ nsig = 0
    /\ nterm = 0
    /\ accessLog \in BOOLEAN
    /\ FreshRequest
    /\ NoPure

\* Positions inside the try block of run (accept and handle_request).
TryPcs == {"accept", "parse", "app", "send", "hflush", "close_stream"}
\* Positions inside handle_request.
RequestPcs == TryPcs \ {"accept"}
\* Exceptions the `except socket.error` clause of run does not catch.
Uncaught == {"ValueError", "AppError", "TypeError"}

\* The locals of execute_request and send_response end with the call,
\* whether it returns or an exception unwinds it.
DropLocals ==
    /\ response' = 0
    /\ status' = 0
    /\ data' = <<>>
    /\ src' = <<"none", 0, -1>>
    /\ length' = 0
    /\ appops' = 0
    /\ hook' = FALSE
    /\ closes' = 0
    /\ appbytes' = 0

\* What select.select reports readable.
Ready ==
    (IF pending > 0 THEN {"sock"} ELSE {}) \cup (IF pipe > 0 THEN {"rpipe"} ELSE {})

\* connection.close() in the finally clause; an unbound name raises
\* NameError, which the bare except swallows.
Closed(c) == IF c = "open" THEN "closed" ELSE c

\* str.find: 0-based index of the first b in d, -1 when absent.
Find(d, b) ==
    IF \E i \in 1..Len(d) : d[i] = b
    THEN (CHOOSE i \in 1..Len(d) : d[i] = b /\ \A j \in 1..(i - 1) : d[j] # b) - 1
    ELSE -1

\* IOStream.read_until("\r\n\r\n") on a stream that delivers d and then
\* end-of-stream: ValueError unless the delimiter is found at an index > 0.
ReadUntilFails(d) == ~(Find(d, "D") > 0)

\* Length of reqline.split(" ", 2) for the request line before the
\* delimiter.
Tokens(d) ==
    LET line == SubSeq(d, 1, Find(d, "D"))
        spaces == Cardinality({i \in 1..Len(line) : line[i] = " "})
    IN  (IF spaces > 2 THEN 2 ELSE spaces) + 1

\* parse_request raises ValueError: from read_until, or from unpacking
\* the split request line into method, path, protocol.
ParseFails(d) == ReadUntilFails(d) \/ Tokens(d) # 3

ReqData == UNION {[1..n -> Bytes] : n \in 0..MaxReqLen}

\* run: `while self.alive:`; leaving the loop logs and calls sys.exit(0).
W_LoopCheck ==
    /\ WRunning /\ wpc = "loop"
    /\ IF walive
       THEN wpc' = "select" /\ wexit' = wexit
       ELSE wpc' = "done" /\ wexit' = "exit0"
    /\ UNCHANGED <<walive, pipe, socks, conn, pending, conns, wrequests,
                   werrors, nsig, nterm, accessLog, rvars, mvars, cvars,
                   pvars>>

\* select.select([self.sock, self.rpipe], [], [], 5) returns the readable
\* descriptors, or the empty list when 5 s pass with none.
W_Select ==
    /\ WRunning /\ wpc = "select"
    /\ socks' = Ready
    /\ wpc' = "ready"
    /\ UNCHANGED <<walive, pipe, conn, pending, conns, wrequests, werrors,
                   wexit, nsig, nterm, accessLog, rvars, mvars, cvars, pvars>>

\* select.select raises select.error: EBADF breaks out of the loop to
\* sys.exit(0); for any other errno but EINTR the except clause ends
\* without continue or break and control falls through to the test of
\* `socks`, which still holds what the previous iteration left.
W_SelectError(e) ==
    /\ WRunning /\ wpc = "select"
    /\ IF e = "EBADF"
       THEN wpc' = "done" /\ wexit' = "exit0"
       ELSE wpc' = "select_failed" /\ wexit' = wexit
    /\ UNCHANGED <<walive, pipe, socks, conn, pending, conns, wrequests,
                   werrors, nsig, nterm, accessLog, rvars, mvars, cvars,
                   pvars>>

\* run: `if self.sock in socks:`, reached from the assignment of select's
\* result or from the end of the except clause.
W_ReadyCheck ==
    /\ WRunning /\ wpc \in {"ready", "select_failed"}
    /\ IF socks = {"unbound"}
       THEN wpc' = "done" /\ wexit' = "NameError"
       ELSE /\ wpc' = IF "sock" \in socks THEN "accept" ELSE "loop"
            /\ wexit' = wexit
    /\ UNCHANGED <<walive, pipe, socks, conn, pending, conns, wrequests,
                   werrors, nsig, nterm, accessLog, rvars, mvars, cvars,
                   pvars>>

\* self.sock.accept() returns a connection (it blocks while the queue is
\* empty); handle_request starts: IOStream(connection), headers_sent False.
W_Accept ==
    /\ WRunning /\ wpc = "accept"
    /\ pending > 0
    /\ pending' = pending - 1
    /\ conn' = "open"
    /\ wpc' = "parse"
    /\ req' = NoRequest
    /\ headers_sent' = FALSE
    /\ response' = 0
    /\ status' = 0
    /\ data' = <<>>
    /\ src' = <<"none", 0, -1>>
    /\ length' = 0
    /\ logged' = -1
    /\ appops' = 0
    /\ wbuf' = <<>>
    /\ wire' = <<>>
    /\ hook' = FALSE
    /\ closes' = 0
    /\ appbytes' = 0
    /\ UNCHANGED <<walive, pipe, socks, conns, wrequests, werrors, wexit,
                   nsig, nterm, accessLog, mvars, cvars, pvars>>

\* A client connects to the listener.
W_Connect ==
    /\ WRunning
    /\ conns < MaxConns
    /\ conns' = conns + 1
    /\ pending' = pending + 1
    /\ UNCHANGED <<wpc, walive, pipe, socks, conn, wrequests, werrors, wexit,
                   nsig, nterm, accessLog, rvars, mvars, cvars, pvars>>

\* A sibling worker of the pool accepts a queued connection.
W_SiblingAccept ==
    /\ WRunning
    /\ pending > 0
    /\ pending' = pending - 1
    /\ UNCHANGED <<wpc, walive, pipe, socks, conn, conns, wrequests, werrors,
                   wexit, nsig, nterm, accessLog, rvars, mvars, cvars, pvars>>

\* parse_request on the bytes d the client sends before closing its side.
W_Parse(d) ==
    /\ WRunning /\ wpc = "parse"
    /\ IF ParseFails(d)
       THEN /\ req' = [req EXCEPT !.parsed = "fail", !.exc = "ValueError"]
            /\ wpc' = "finally"
       ELSE /\ req' = [req EXCEPT !.parsed = "ok"]
            /\ wpc' = "app"
    /\ UNCHANGED <<headers_sent, response, status, data, src, length, hook,
                   closes, appbytes, logged, appops, wbuf, wire, walive, pipe,
                   socks, conn, pending, conns, wrequests, werrors, wexit,
                   nsig, nterm, accessLog, mvars, cvars, pvars>>

\* socket.recv or socket.sendall raises socket.error for a reason of the
\* network (connection reset, broken pipe).
W_SocketError(e) ==
    /\ WRunning /\ wpc \in {"parse", "hflush", "close_stream"}
    /\ wpc = "parse" => e = "other"
    /\ req' = [req EXCEPT !.exc = e]
    /\ wpc' = "except"
    /\ UNCHANGED <<headers_sent, logged, wbuf, wire, walive, pipe, socks,
                   conn, pending, conns, wrequests, werrors, wexit, nsig,
                   nterm, accessLog, mvars, cvars, pvars>>
    /\ DropLocals

\* start_response(status, headers, exc_info): with exc_info given and the
\* headers already sent the triple is re-raised into the application;
\* otherwise response[0:2] is replaced.
StartResponse(s, x) ==
    IF x /\ headers_sent
    THEN /\ req' = [req EXCEPT !.exc = "AppError"]
         /\ wpc' = "finally"
         /\ DropLocals
    ELSE /\ response' = s
         /\ appops' = appops + 1
         /\ UNCHANGED <<req, wpc, status, data, src, length, hook, closes,
                        appbytes>>

\* execute_request: the application call self.app(env, start_response),
\* one operation of the application at a time.
W_AppStartResponse(s, x) ==
    /\ WRunning /\ wpc = "app" /\ appops < MaxAppOps
    /\ StartResponse(s, x)
    /\ UNCHANGED <<headers_sent, logged, wbuf, wire, wrest, mvars, cvars,
                   pvars>>

\* The application calls the write-sink: data.append(chunk).
W_AppWrite(n) ==
    /\ WRunning /\ wpc = "app" /\ appops < MaxAppOps
    /\ data' = Append(data, n)
    /\ appbytes' = appbytes + n
    /\ appops' = appops + 1
    /\ UNCHANGED <<wpc, req, headers_sent, response, status, src, length,
                   hook, closes, logged, wbuf, wire, wrest, mvars, cvars,
                   pvars>>

\* The application call raises.
W_AppRaise ==
    /\ WRunning /\ wpc = "app"
    /\ req' = [req EXCEPT !.exc = "AppError"]
    /\ wpc' = "finally"
    /\ UNCHANGED <<headers_sent, logged, wbuf, wire, wrest, mvars, cvars,
                   pvars>>
    /\ DropLocals

\* The application call returns its iterable; execute_request unpacks
\* `status, headers, data = response` and calls send_response, whose outer
\* loop starts on the write-sink list.
W_AppReturn ==
    /\ WRunning /\ wpc = "app"
    /\ status' = response
    /\ src' = <<"data", 1, -1>>
    /\ wpc' = "send"
    /\ UNCHANGED <<req, headers_sent, response, data, length, hook, closes,
                   appbytes, logged, appops, wbuf, wire, wrest, mvars, cvars,
                   pvars>>

\* What stream.write(chunk) appends: nothing for the empty string.
Body(n) == IF n > 0 THEN <<<<"B", n>>>> ELSE <<>>

\* send_headers up to `self.headers_sent = True`: the status line and the
\* header block go to the write buffer, unless the flag is already set.
SendHeaders(st) ==
    IF ~headers_sent
    THEN wbuf' = Append(wbuf, <<"H", st>>) /\ headers_sent' = TRUE
    ELSE UNCHANGED <<wbuf, headers_sent>>

\* Mutant of Chunk: the chunk is written before the headers are looked at.
Chunk_BodyFirst(n, k, i) ==
    /\ wbuf' = (wbuf \o Body(n)) \o (IF headers_sent THEN <<>> ELSE <<<<"H", status>>>>)
    /\ headers_sent' = TRUE
    /\ length' = length + n
    /\ src' = <<k, i, -1>>
    /\ UNCHANGED <<wpc, wire>>

\* send_response, the body of the inner loop for one chunk of n bytes
\* taken from source k: with the headers unsent, send_headers runs first
\* and the chunk waits for its flush.
Chunk(n, k, i) ==
    IF ~headers_sent
    THEN /\ SendHeaders(status)
         /\ src' = <<k, i, n>>
         /\ wpc' = "hflush"
         /\ UNCHANGED <<length, wire>>
    ELSE /\ wbuf' = wbuf \o Body(n)
         /\ length' = length + n
         /\ src' = <<k, i, -1>>
         /\ UNCHANGED <<wpc, headers_sent, wire>>

\* send_headers: self.stream.flush(), then write(chunk) and the length.
W_HeaderFlush ==
    /\ WRunning /\ wpc = "hflush"
    /\ wire' = wire \o wbuf
    /\ wbuf' = Body(src[3])
    /\ length' = length + src[3]
    /\ src' = <<src[1], src[2], -1>>
    /\ wpc' = "send"
    /\ UNCHANGED <<req, headers_sent, response, status, data, logged, appops,
                   hook, closes, appbytes, wrest, mvars, cvars, pvars>>

\* send_response iterating the write-sink list.
W_SendData ==
    /\ WRunning /\ wpc = "send" /\ src[1] = "data"
    /\ IF src[2] <= Len(data)
       THEN Chunk(data[src[2]], "data", src[2] + 1)
       ELSE /\ src' = <<"chunks", 0, -1>>
            /\ UNCHANGED <<wpc, headers_sent, wbuf, length, wire>>
    /\ UNCHANGED <<req, response, status, data, logged, appops, hook, closes,
                   appbytes, wrest, mvars, cvars, pvars>>

\* send_response iterating the application's iterable: it yields a chunk.
W_IterYield(n) ==
    /\ WRunning /\ wpc = "send" /\ src[1] = "chunks" /\ appops < MaxAppOps
    /\ Chunk(n, "chunks", 0)
    /\ appbytes' = appbytes + n
    /\ appops' = appops + 1
    /\ UNCHANGED <<req, response, status, data, logged, hook, closes, wrest,
                   mvars, cvars, pvars>>

\* The iterable calls start_response while it is being iterated.
W_IterStartResponse(s, x) ==
    /\ WRunning /\ wpc = "send" /\ src[1] = "chunks" /\ appops < MaxAppOps
    /\ StartResponse(s, x)
    /\ UNCHANGED <<headers_sent, logged, wbuf, wire, wrest, mvars,
                   cvars, pvars>>

\* The iterable calls the write-sink while it is being iterated.
W_IterWrite(n) ==
    /\ WRunning /\ wpc = "send" /\ src[1] = "chunks" /\ appops < MaxAppOps
    /\ data' = Append(data, n)
    /\ appbytes' = appbytes + n
    /\ appops' = appops + 1
    /\ UNCHANGED <<wpc, req, headers_sent, response, status, src, length,
                   hook, closes, logged, wbuf, wire, wrest, mvars, cvars,
                   pvars>>

\* The iterable raises while it is being iterated.
W_IterRaise ==
    /\ WRunning /\ wpc = "send" /\ src[1] = "chunks"
    /\ req' = [req EXCEPT !.exc = "AppError"]
    /\ wpc' = "finally"
    /\ UNCHANGED <<headers_sent, logged, wbuf, wire, wrest, mvars,
                   cvars, pvars>>
    /\ DropLocals

\* The iterable is exhausted; the outer loop moves on to [""].
W_IterStop ==
    /\ WRunning /\ wpc = "send" /\ src[1] = "chunks"
    /\ src' = <<"tail", 0, -1>>
    /\ UNCHANGED <<wpc, req, headers_sent, response, status, data, length,
                   hook, closes, appbytes, logged, appops, wbuf, wire, wrest,
                   mvars, cvars, pvars>>

\* send_response on the trailing empty chunk.
W_SendTail ==
    /\ WRunning /\ wpc = "send" /\ src[1] = "tail"
    /\ Chunk(0, "end", 0)
    /\ UNCHANGED <<req, response, status, data, logged, appops, hook, closes,
                   appbytes, wrest, mvars, cvars, pvars>>

\* hasattr(obj, "close") for the objects the name `chunks` of send_response
\* is bound to in turn: the write-sink list, the application's iterable
\* (c: it has a close attribute) and the list [""].  A list has no close.
HasClose(obj, c) == obj = "chunks" /\ c

\* What the name `chunks` refers to once `for chunks in [data, chunks,
\* [""]]` has ended: the loop variable keeps the last element, the list
\* [""].
LoopVariable == "tail"

\* send_response returns: `if hasattr(chunks, "close"): chunks.close()`
\* looks at the loop variable.  c: the iterable the application returned
\* has a close attribute.
W_SendReturn(c) ==
    /\ WRunning /\ wpc = "send" /\ src[1] = "end"
    /\ hook' = c
    /\ closes' = IF HasClose(LoopVariable, c) THEN closes + 1 ELSE closes
    /\ wpc' = "close_stream"
    /\ UNCHANGED <<req, headers_sent, response, status, data, src, length,
                   logged, appbytes, appops, wbuf, wire, wrest, mvars, cvars,
                   pvars>>

\* handle_request: self.stream.close() flushes; with an access log the
\* request is logged with status[:3] (TypeError on None); back in run,
\* self.requests += 1.
W_Finish ==
    /\ WRunning /\ wpc = "close_stream"
    /\ wire' = wire \o wbuf
    /\ wbuf' = <<>>
    /\ wpc' = "finally"
    /\ IF accessLog /\ status = 0
       THEN /\ req' = [req EXCEPT !.exc = "TypeError"]
            /\ UNCHANGED <<logged, wrequests>>
       ELSE /\ logged' = IF accessLog THEN length ELSE logged
            /\ wrequests' = wrequests + 1
            /\ req' = [req EXCEPT !.counted = "request"]
    /\ UNCHANGED <<headers_sent, walive, pipe, socks, conn, pending,
                   conns, werrors, wexit, nsig, nterm, accessLog, mvars,
                   cvars, pvars>>
    /\ DropLocals

\* run: `except socket.error, e:` counts the error and logs.
W_Except ==
    /\ WRunning /\ wpc = "except"
    /\ werrors' = werrors + 1
    /\ req' = [req EXCEPT !.counted = "error"]
    /\ wpc' = "finally"
    /\ UNCHANGED <<headers_sent, response, status, data, src, length, hook,
                   closes, appbytes, logged, appops, wbuf, wire, walive, pipe,
                   socks, conn, pending, conns, wrequests, wexit, nsig, nterm,
                   accessLog, mvars, cvars, pvars>>

\* The end of the finally clause: an exception the except clause did not
\* catch goes on unwinding and ends the process; otherwise the loop
\* continues.
AfterFinally ==
    IF req.exc \in Uncaught
    THEN wpc' = "done" /\ wexit' = req.exc
    ELSE wpc' = "loop" /\ wexit' = wexit

\* run: the finally clause, connection.close() with errors swallowed.
W_Finally ==
    /\ WRunning /\ wpc = "finally"
    /\ conn' = Closed(conn)
    /\ AfterFinally
    /\ UNCHANGED <<walive, pipe, socks, pending, conns, wrequests, werrors,
                   nsig, nterm, accessLog, rvars, mvars, cvars, pvars>>

\* The worker is blocked in a system call that a signal interrupts with
\* EINTR: select with nothing readable, accept with an empty queue, recv
\* waiting for the client, sendall waiting for buffer space (recv never
\* retries; whether sendall does depends on the interpreter, so a signal
\* may or may not surface there).
Blocked ==
    \/ wpc = "select" /\ Ready = {}
    \/ wpc = "accept" /\ pending = 0
    \/ wpc \in {"parse", "hflush", "close_stream"}

\* Where the worker's flow continues when the call it is blocked in
\* fails with EINTR: select's handler continues the loop, the others
\* raise socket.error inside the try block.
Interrupted ==
    IF wpc = "select"
    THEN /\ wpc' = "loop"
         /\ UNCHANGED <<req, response, status, data, src, length, hook,
                        closes, appbytes, appops>>
    ELSE /\ wpc' = "except"
         /\ req' = IF wpc = "accept"
                   THEN [NoRequest EXCEPT !.exc = "EINTR"]
                   ELSE [req EXCEPT !.exc = "EINTR"]
         /\ DropLocals

\* die_gracefully: SIGQUIT reaches the worker; the handler clears alive
\* and writes one byte to the self-pipe.  intr: the signal found the
\* worker blocked in a system call, which fails with EINTR.
W_DieGracefully(intr) ==
    /\ WRunning /\ nsig < MaxSignals
    /\ nsig' = nsig + 1
    /\ walive' = FALSE
    /\ pipe' = pipe + 1
    /\ IF intr
       THEN Blocked /\ Interrupted
       ELSE UNCHANGED <<wpc, req, response, status, data, src, length, hook,
                        closes, appbytes, appops>>
    /\ UNCHANGED <<socks, conn, pending, conns, wrequests, werrors, wexit,
                   nterm, accessLog, headers_sent, logged, wbuf, wire, mvars,
                   cvars, pvars>>

\* die_immediately: SIGTERM or SIGINT reaches the worker; the handler
\* calls sys.exit(0), and SystemExit unwinds from the point the flow has
\* reached.  Raised in the try block or the except clause it runs the
\* finally clause on its way out.  inner: the handler ran inside the
\* `try: connection.close()` of the finally clause, whose bare except
\* swallows SystemExit (before or after the close took effect).
W_DieImmediately(inner, closed) ==
    /\ WRunning /\ nsig < MaxSignals
    /\ nsig' = nsig + 1
    /\ nterm' = nterm + 1
    /\ IF inner
       THEN /\ wpc = "finally"
            /\ conn' = IF closed THEN Closed(conn) ELSE conn
            /\ AfterFinally
       ELSE /\ closed = (wpc \in TryPcs \cup {"except"})
            /\ conn' = IF closed THEN Closed(conn) ELSE conn
            /\ wpc' = "done"
            /\ wexit' = "exit0"
    /\ UNCHANGED <<walive, pipe, socks, pending, conns, wrequests, werrors,
                   accessLog, rvars, mvars, cvars, pvars>>

NextWorker ==
    \/ W_LoopCheck
    \/ W_Select
    \/ \E e \in {"EBADF", "other"} : W_SelectError(e)
    \/ W_ReadyCheck
    \/ W_Accept
    \/ W_Connect
    \/ W_SiblingAccept
    \/ \E d \in ReqData : W_Parse(d)
    \/ \E e \in {"EPIPE", "other"} : W_SocketError(e)
    \/ \E s \in Statuses, x \in BOOLEAN : W_AppStartResponse(s, x)
    \/ \E n \in ChunkLens : W_AppWrite(n)
    \/ W_AppRaise
    \/ W_AppReturn
    \/ W_HeaderFlush
    \/ W_SendData
    \/ \E n \in ChunkLens : W_IterYield(n)
    \/ \E s \in Statuses, x \in BOOLEAN : W_IterStartResponse(s, x)
    \/ \E n \in ChunkLens : W_IterWrite(n)
    \/ W_IterRaise
    \/ W_IterStop
    \/ W_SendTail
    \/ \E c \in BOOLEAN : W_SendReturn(c)
    \/ W_Finish
    \/ W_Except
    \/ W_Finally
    \/ \E intr \in BOOLEAN : W_DieGracefully(intr)
    \/ \E inner \in BOOLEAN, closed \in BOOLEAN : W_DieImmediately(inner, closed)

\* ------------------------------------------- properties under WorkerSpec
\* The request has left handle_request and the except and finally clauses.
Handled == wpc \notin RequestPcs \cup {"except", "finally"}

\* Everything written to the stream of the request in hand, in order.
Written == wire \o wbuf

\* C4: a graceful-stop signal delivered while a request is in flight
\* changes nothing but alive and the self-pipe: the request goes on from
\* the point it had reached.
C4_GracefulStopKeepsRequest ==
    [][(pipe' # pipe /\ wpc \in RequestPcs) => (wpc' = wpc /\ req' = req)]_vars

\* C5: once the graceful-stop handler has run, the worker never sits in
\* accept on an empty queue, where only a further connection frees it.
C5_StopNeedsNoConnection ==
    ~(WRunning /\ ~walive /\ wpc = "accept" /\ pending = 0)

\* C7: every delivery of SIGTERM or SIGINT ends the worker with status 0
\* (deliveries that find another exception already unwinding set aside).
C7_ImmediateStopExits ==
    [][(nterm' # nterm /\ req.exc \notin Uncaught) => wexit' = "exit0"]_vars

\* C8: after a request whose parsing failed, the connection is closed with
\* nothing written, the failure is counted as one error and as no request,
\* and the worker is still serving.
C8_ParseErrorCounted ==
    (req.parsed = "fail" /\ Handled /\ nsig = 0) =>
        /\ conn = "closed" /\ Written = <<>>
        /\ req.counted = "error"
        /\ WRunning

\* C9: after a request in which the application raised, the connection is
\* closed, the failure is counted as an error and the worker is still
\* serving.
C9_AppErrorCounted ==
    (req.exc = "AppError" /\ Handled /\ nsig = 0) =>
        /\ conn = "closed"
        /\ req.counted = "error"
        /\ WRunning

\* C10: what a request has written to its stream is empty or one header
\* block followed by body chunks only; headers_sent is set exactly when
\* that block has been written; a response that completed has one; and
\* headers_sent is cleared nowhere but at the start of handle_request.
C10_HeadersOnceFirst ==
    /\ [](/\ headers_sent = (Len(Written) > 0)
          /\ Len(Written) > 0 => Written[1][1] = "H"
          /\ \A i \in 2..Len(Written) : Written[i][1] = "B"
          /\ (wpc = "close_stream" \/ req.counted = "request") => headers_sent)
    /\ [][(headers_sent /\ ~headers_sent') => wpc = "accept"]_vars

\* C10 witness: a response of two body chunks has been sent in full after
\* the application called start_response.
C10_Witness ==
    /\ req.counted = "request"
    /\ Len(wire) = 3 /\ wire[1] \in {<<"H", 1>>, <<"H", 2>>}
    /\ wire[2][1] = "B" /\ wire[3][1] = "B"

\* C11: the header block is put on the stream only when a chunk is in
\* hand, and the status it carries is that of the latest start_response
\* call made up to that point, during the application call or during the
\* iteration of what it returned.
C11_LatestStartResponseEmitted ==
    wpc = "hflush" =>
        /\ src[3] >= 0
        /\ Written = <<<<"H", response>>>>

\* C12: when send_response has returned, an iterable that exposes a close
\* hook has had it called exactly once (after its last chunk was written).
C12_CloseHookCalledOnce ==
    (wpc = "close_stream" /\ hook) => closes = 1

\* C13: the body length on a request's access-log line is the number of
\* bytes the application produced for it: every chunk given to the
\* write-sink, at any time during the request, and every chunk of the
\* returned iterable.
C13_LoggedLengthIsAppBytes ==
    [][(logged' # logged /\ logged' # -1) => logged' = appbytes]_vars

\* C18: a worker that is at the loop test, in the readiness wait or at the
\* test of its result holds no open accepted connection: the one it took
\* last has been closed.
C18_NoConnectionWhileWaiting ==
    (WRunning /\ wpc \in {"loop", "select", "ready", "select_failed"}) =>
        conn # "open"

\* C20: the worker enters accept only from the test of the result of a
\* readiness wait that returned in the same iteration and reported the
\* listener readable, never after a wait that failed.
C20_AcceptOnlyAfterReadyWait ==
    [][(wpc # "accept" /\ wpc' = "accept") =>
          (wpc = "ready" /\ "sock" \in socks)]_vars

WorkerSpec == InitWorker /\ [][NextWorker]_vars

\* ------------------------------------------- send_headers, run on its own
\* No manager and no forked child take part.
NoManager ==
    /\ mpc = "none"
    /\ malive = TRUE
    /\ workers = {}
    /\ hpid = [h \in Handles |-> FALSE]
    /\ todo = {}
    /\ cur = 0
    /\ polls = 0
    /\ mexit = "none"
    /\ termSent = {}
    /\ cyc = [h \in Handles |-> 0]
    /\ cstate = [h \in Handles |-> "none"]
    /\ cexit = [h \in Handles |-> "none"]
    /\ csig = [h \in Handles |-> {}]
    /\ cworkers = [h \in Handles |-> {}]
    /\ csent = [h \in Handles |-> {}]

\* The worker's loop state plays no part either.
NoLoop ==
    /\ walive = TRUE
    /\ pipe = 0
    /\ socks = {"unbound"}
    /\ conn = "open"
    /\ pending = 0
    /\ conns = 0
    /\ wrequests = 0
    /\ werrors = 0
    /\ wexit = "running"
    /\ nsig = 0
    /\ nterm = 0
    /\ accessLog = TRUE

\* Header names are sequences of characters.
DateName == <<"D", "a", "t", "e">>
ConnectionName == <<"C", "o", "n", "n", "e", "c", "t", "i", "o", "n">>
\* Names an application may give its headers: the two in several letter
\* cases, a name that only starts like one of them, and two others.
HeaderNames ==
    { DateName, <<"d", "a", "t", "e">>, <<"D", "A", "T", "E">>,
      <<"d", "A", "t", "e">>,
      ConnectionName,
      <<"c", "o", "n", "n", "e", "c", "t", "i", "o", "n">>,
      <<"C", "O", "N", "N", "E", "C", "T", "I", "O", "N">>,
      <<"D", "a", "t", "e", "x">>, <<"X">>, <<"E", "T", "a", "g">> }

\* Header lists: (name, value) pairs; the value of a header is its
\* position in the list, which tells equal names apart.
HeaderLists ==
    UNION { { [i \in 1..n |-> <<f[i], i>>] : f \in [1..n -> HeaderNames] } :
            n \in 0..MaxHeaders }

\* The letters of the names above, upper and lower case side by side.
UpperCase == <<"A", "C", "D", "E", "G", "I", "N", "O", "T", "X">>
LowerCase == <<"a", "c", "d", "e", "g", "i", "n", "o", "t", "x">>

\* Mutant of LowerChar: the character is left as it is.
LowerChar_Unchanged(c) == c

\* str.lower() on one character.
LowerChar(c) ==
    IF \E i \in 1..Len(UpperCase) : UpperCase[i] = c
    THEN LowerCase[CHOOSE i \in 1..Len(UpperCase) : UpperCase[i] = c]
    ELSE c

\* str.lower().
Lower(name) == [i \in 1..Len(name) |-> LowerChar(name[i])]

\* header[0].lower() not in ("connection", "date")
Emitted(header) ==
    Lower(header[1]) \notin
        { <<"c", "o", "n", "n", "e", "c", "t", "i", "o", "n">>,
          <<"d", "a", "t", "e">> }

\* The lines send_headers writes: kind, header name, who supplied the
\* line, and its value (the status, or the header's position).
StatusLine(st) == <<"status", <<>>, "server", st>>
ServerLine(name) == <<"header", name, "server", 0>>
HeaderLine(header) == <<"header", header[1], "app", header[2]>>
BlankLine == <<"blank", <<>>, "server", 0>>

InitHeaders ==
    /\ NoManager
    /\ NoLoop
    /\ wpc = "h_begin"
    /\ req = NoRequest
    /\ headers_sent \in BOOLEAN
    /\ response = 0
    /\ status \in Statuses
    /\ data = <<>>
    /\ src = <<"none", 0, -1>>
    /\ length = 0
    /\ logged = -1
    /\ appops = 0
    /\ wbuf = <<>>
    /\ wire = <<>>
    /\ hook = FALSE
    /\ closes = 0
    /\ appbytes = 0
    /\ headers \in HeaderLists
    /\ hnext = 1
    /\ path = <<>>
    /\ quoted = <<>>
    /\ unquoted = <<>>
    /\ NoStream

\* What send_headers never touches.
hrest == <<mvars, cvars, wrest, req, response, status, data, src, length,
           logged, appops, hook, closes, appbytes, headers, path, quoted,
           unquoted, svars>>

\* `if not self.headers_sent:` and the status line.
H_StatusLine ==
    /\ wpc = "h_begin"
    /\ IF headers_sent
       THEN wpc' = "h_return" /\ wbuf' = wbuf
       ELSE wpc' = "h_date" /\ wbuf' = Append(wbuf, StatusLine(status))
    /\ UNCHANGED <<headers_sent, wire, hnext, hrest>>

\* write("Date: %s\r\n" % (http_date(),))
H_DateLine ==
    /\ wpc = "h_date"
    /\ wbuf' = Append(wbuf, ServerLine(DateName))
    /\ wpc' = "h_loop"
    /\ UNCHANGED <<headers_sent, wire, hnext, hrest>>

\* One pass of `for header in headers:`.
H_Header ==
    /\ wpc = "h_loop" /\ hnext <= Len(headers)
    /\ wbuf' = IF Emitted(headers[hnext])
               THEN Append(wbuf, HeaderLine(headers[hnext]))
               ELSE wbuf
    /\ hnext' = hnext + 1
    /\ UNCHANGED <<wpc, headers_sent, wire, hrest>>

\* write("Connection: close\r\n") once the loop has ended.
H_ConnectionLine ==
    /\ wpc = "h_loop" /\ hnext > Len(headers)
    /\ wbuf' = Append(wbuf, ServerLine(ConnectionName))
    /\ wpc' = "h_blank"
    /\ UNCHANGED <<headers_sent, wire, hnext, hrest>>

\* write("\r\n") and self.headers_sent = True.
H_BlankLine ==
    /\ wpc = "h_blank"
    /\ wbuf' = Append(wbuf, BlankLine)
    /\ headers_sent' = TRUE
    /\ wpc' = "h_flush"
    /\ UNCHANGED <<wire, hnext, hrest>>

\* self.stream.flush()
H_Flush ==
    /\ wpc = "h_flush"
    /\ wire' = wire \o wbuf
    /\ wbuf' = <<>>
    /\ wpc' = "h_return"
    /\ UNCHANGED <<headers_sent, hnext, hrest>>

NextHeaders ==
    \/ H_StatusLine
    \/ H_DateLine
    \/ H_Header
    \/ H_ConnectionLine
    \/ H_BlankLine
    \/ H_Flush

HeaderSpec == InitHeaders /\ [][NextHeaders]_vars

\* ------------------------------------------- properties under HeaderSpec
\* Two characters are the same letter, whatever their case.
SameLetter(x, y) ==
    x = y \/ \E i \in 1..Len(UpperCase) : {x, y} = {UpperCase[i], LowerCase[i]}

\* Two names are equal in some letter case.
SameName(a, b) ==
    Len(a) = Len(b) /\ \A i \in 1..Len(a) : SameLetter(a[i], b[i])

\* Positions of the application's headers named neither like Connection
\* nor like Date.
Passed ==
    {i \in 1..Len(headers) : /\ ~SameName(headers[i][1], ConnectionName)
                             /\ ~SameName(headers[i][1], DateName)}

\* C15: a header block that has been emitted is the status line, the
\* server's Date, the application's headers, the server's Connection:
\* close and the blank line, in that order; Date and Connection occur once
\* each; the application's headers in it are those named neither like
\* Connection nor like Date, each once and in their original order.
C15_HeaderBlock ==
    (wpc = "h_return" /\ wire # <<>>) =>
        LET n == Len(wire) IN
        /\ n >= 4 /\ wbuf = <<>>
        /\ wire[1] = StatusLine(status)
        /\ wire[2] = ServerLine(DateName)
        /\ wire[n - 1] = ServerLine(ConnectionName)
        /\ wire[n] = BlankLine
        /\ Cardinality({i \in 1..n : SameName(wire[i][2], DateName)}) = 1
        /\ Cardinality({i \in 1..n : SameName(wire[i][2], ConnectionName)}) = 1
        /\ \A i \in 3..(n - 2) :
              /\ wire[i][1] = "header" /\ wire[i][3] = "app"
              /\ wire[i][4] \in Passed
              /\ headers[wire[i][4]][1] = wire[i][2]
              /\ i > 3 => wire[i - 1][4] < wire[i][4]
        /\ n - 4 = Cardinality(Passed)

\* C15 witness: a block has been emitted for a list that held a Date in
\* upper case, a Connection in lower case and a header of another name.
C15_Witness ==
    /\ wpc = "h_return" /\ Len(wire) = 5
    /\ Len(headers) = 3
    /\ headers[1][1] = <<"D", "A", "T", "E">>
    /\ headers[2][1] = <<"X">>
    /\ headers[3][1] = <<"c", "o", "n", "n", "e", "c", "t", "i", "o", "n">>
    /\ wire[3] = <<"header", <<"X">>, "app", 2>>

\* --------------------------------------------- urlunquote, run on its own
\* Strings are sequences of byte values.  The bytes a path is made of
\* here: "%", "1", "A", "a", "g".
Percent == 37
PathBytes == {Percent, 49, 65, 97, 103}
Paths == UNION {[1..n -> PathBytes] : n \in 0..MaxPathLen}

\* The digit characters "%x" and "%X" print for a value 0..15.
HexLower(d) == IF d < 10 THEN 48 + d ELSE 97 + (d - 10)
HexUpper(d) == IF d < 10 THEN 48 + d ELSE 65 + (d - 10)

\* The two keys the module-level loop enters for byte i: "%02x" % i and
\* "%02X" % i.
KeyLower(i) == <<HexLower(i \div 16), HexLower(i % 16)>>
KeyUpper(i) == <<HexUpper(i \div 16), HexUpper(i % 16)>>

\* charfromhex.get(code, "%" + code)
CharFromHex(code) ==
    IF \E i \in 0..255 : code \in {KeyLower(i), KeyUpper(i)}
    THEN <<CHOOSE i \in 0..255 : code \in {KeyLower(i), KeyUpper(i)}>>
    ELSE <<Percent>> \o code

\* "%" in q
HasPercent(q) == \E i \in 1..Len(q) : q[i] = Percent

\* q.partition("%") for a q that holds a "%": what precedes the first
\* one, and what follows it.
Before(q) == SubSeq(q, 1, Find(q, Percent))
After(q) == SubSeq(q, Find(q, Percent) + 2, Len(q))

\* s[:2] and s[2:]
Take2(q) == SubSeq(q, 1, IF Len(q) < 2 THEN Len(q) ELSE 2)
Drop2(q) == SubSeq(q, 3, Len(q))

InitUnquote ==
    /\ NoManager
    /\ NoLoop
    /\ wpc = "u_loop"
    /\ FreshRequest
    /\ headers = <<>>
    /\ hnext = 0
    /\ path \in Paths
    /\ quoted = path
    /\ unquoted = <<>>
    /\ NoStream

\* One pass of `while "%" in quoted:`.
U_Step ==
    /\ wpc = "u_loop" /\ HasPercent(quoted)
    /\ quoted' = Drop2(After(quoted))
    /\ unquoted' = (unquoted \o Before(quoted))
                        \o CharFromHex(Take2(After(quoted)))
    /\ UNCHANGED <<wpc, wrest, mvars, cvars, rvars, headers, hnext, path,
                   svars>>

\* The loop has ended: `unquoted += quoted` and the return.
U_Return ==
    /\ wpc = "u_loop" /\ ~HasPercent(quoted)
    /\ unquoted' = unquoted \o quoted
    /\ wpc' = "u_return"
    /\ UNCHANGED <<quoted, wrest, mvars, cvars, rvars, headers, hnext, path,
                   svars>>

NextUnquote ==
    \/ U_Step
    \/ U_Return

UnquoteSpec == InitUnquote /\ [][NextUnquote]_vars

\* ------------------------------------------ properties under UnquoteSpec
\* A hexadecimal digit in either case, and its value.
IsHex(c) == c \in (48..57) \cup (65..70) \cup (97..102)
HexValue(c) == IF c <= 57 THEN c - 48 ELSE IF c <= 70 THEN c - 55 ELSE c - 87

\* Percent-decoding as the path rule words it: each "%" followed by two
\* hexadecimal digits of any case stands for the byte they spell; a "%"
\* followed by anything else stays, with the (up to two) characters after
\* it.
RECURSIVE Decoded(_)
Decoded(q) ==
    IF ~HasPercent(q) THEN q
    ELSE LET code == Take2(After(q))
         IN  (Before(q) \o
              (IF Len(code) = 2 /\ IsHex(code[1]) /\ IsHex(code[2])
               THEN <<16 * HexValue(code[1]) + HexValue(code[2])>>
               ELSE <<Percent>> \o code)) \o Decoded(Drop2(After(q)))

\* C16: urlunquote returns the percent-decoding of its argument: escapes
\* of two hexadecimal digits in upper, lower or mixed case become the
\* byte, invalid or truncated escapes stay as they are, and a string
\* without "%" is returned unchanged.
C16_UnquoteDecodes ==
    wpc = "u_return" => unquoted = Decoded(path)

\* ------------------------------------------ IOStream reads, on their own
\* Bytes on the connection: "a" any byte, "r" a carriage return, "n" a
\* newline.
StreamBytes == {"a", "r", "n"}
Inputs == UNION {[1..n -> StreamBytes] : n \in 0..MaxStreamLen}
\* Delimiters given to read_until: the newline of readline and a
\* two-byte one.
Newline == <<"n">>
Delimiters == {Newline, <<"r", "n">>}
\* Sizes given to read; a negative size reads to end-of-stream.
Sizes == -1..MaxReadSize

\* str.find for a substring: 0-based index of the first occurrence of t
\* in b, -1 when there is none.
FindSub(b, t) ==
    LET at == {i \in 0..(Len(b) - Len(t)) : SubSeq(b, i + 1, i + Len(t)) = t}
    IN  IF at = {} THEN -1 ELSE CHOOSE i \in at : \A j \in at : i <= j

\* b[:k] for k >= 0
Prefix(b, k) == SubSeq(b, 1, IF k < Len(b) THEN k ELSE Len(b))

\* Mutant of Suffix: the slice starts one byte late.
Suffix_SkipsOne(b, k) == SubSeq(b, k + 2, Len(b))

\* b[k:] for k >= 0
Suffix(b, k) == SubSeq(b, k + 1, Len(b))

InitStream ==
    /\ NoManager
    /\ NoLoop
    /\ wpc = "s_idle"
    /\ FreshRequest
    /\ headers = <<>>
    /\ hnext = 0
    /\ path = <<>>
    /\ quoted = <<>>
    /\ unquoted = <<>>
    /\ read_buffer = <<>>
    /\ incoming \in Inputs
    /\ received = <<>>
    /\ returned = <<>>
    /\ scall = NoCall
    /\ slast = "none"
    /\ ncalls = 0

\* What the stream's reads never touch.
srest == <<mvars, cvars, wrest, rvars, headers, hnext, path, quoted,
           unquoted>>

\* read(size), read_until(delimiter) or readline() is called.
S_Call(op, size, delim) ==
    /\ wpc = "s_idle" /\ ncalls < MaxCalls
    /\ op = "read" => delim = <<>>
    /\ op = "read_until" => size = 0
    /\ op = "readline" => size = 0 /\ delim = Newline
    /\ scall' = [op |-> op, size |-> size, delim |-> delim]
    /\ slast' = "none"
    /\ ncalls' = ncalls + 1
    /\ wpc' = "s_loop"
    /\ UNCHANGED <<read_buffer, incoming, received, returned, srest>>

\* The condition of the call's while loop: `while True` when reading to
\* end-of-stream, `len(self.read_buffer) < size`, or `delimiter not in
\* self.read_buffer`.
LoopGoesOn ==
    IF scall.op = "read"
    THEN scall.size < 0 \/ Len(read_buffer) < scall.size
    ELSE FindSub(read_buffer, scall.delim) = -1

\* chunk = self.socket.recv(4096) returns k bytes, as many as have
\* arrived; self.read_buffer += chunk.
S_Recv(k) ==
    /\ wpc = "s_loop" /\ LoopGoesOn
    /\ k \in 1..Len(incoming)
    /\ read_buffer' = read_buffer \o Prefix(incoming, k)
    /\ received' = received \o Prefix(incoming, k)
    /\ incoming' = Suffix(incoming, k)
    /\ UNCHANGED <<wpc, returned, scall, slast, ncalls, srest>>

\* What the call returns once its loop has ended, and what it leaves in
\* the buffer; read_until raises ValueError unless the delimiter is found
\* at an index above 0, and readline turns that into "".
ReadResult ==
    IF scall.op = "read"
    THEN IF scall.size < 0
         THEN <<"returned", read_buffer, <<>>>>
         ELSE <<"returned", Prefix(read_buffer, scall.size),
                Suffix(read_buffer, scall.size)>>
    ELSE LET index == FindSub(read_buffer, scall.delim)
             end == index + Len(scall.delim)
         IN  IF ~(index > 0)
             THEN IF scall.op = "readline"
                  THEN <<"empty", <<>>, read_buffer>>
                  ELSE <<"ValueError", <<>>, read_buffer>>
             ELSE <<"returned", Prefix(read_buffer, end),
                    Suffix(read_buffer, end)>>

\* The loop ends, on its condition or on the empty chunk recv returns at
\* end-of-stream, and the call returns or raises.
S_Return ==
    /\ wpc = "s_loop"
    /\ ~LoopGoesOn \/ incoming = <<>>
    /\ slast' = ReadResult[1]
    /\ returned' = returned \o ReadResult[2]
    /\ read_buffer' = ReadResult[3]
    /\ scall' = NoCall
    /\ wpc' = "s_idle"
    /\ UNCHANGED <<incoming, received, ncalls, srest>>

NextStream ==
    \/ \E size \in Sizes : S_Call("read", size, <<>>)
    \/ \E delim \in Delimiters : S_Call("read_until", 0, delim)
    \/ S_Call("readline", 0, Newline)
    \/ \E k \in 1..MaxStreamLen : S_Recv(k)
    \/ S_Return

StreamSpec == InitStream /\ [][NextStream]_vars

\* ------------------------------------------- properties under StreamSpec
\* C21: at every point of any sequence of read, read_until and readline
\* calls, what the calls have returned, in call order, followed by the
\* read buffer is what the socket has delivered so far; and a read_until
\* (or readline) that fails leaves the buffer and what was returned as
\* they were, failing only with the delimiter at index 0 or absent at
\* end-of-stream.
C21_ReadsConserveBytes ==
    /\ [](returned \o read_buffer = received)
    /\ [][(wpc = "s_loop" /\ wpc' = "s_idle"
            /\ slast' \in {"ValueError", "empty"}) =>
              /\ read_buffer' = read_buffer /\ returned' = returned
              /\ \/ FindSub(read_buffer, scall.delim) = 0
                 \/ FindSub(read_buffer, scall.delim) = -1 /\ incoming = <<>>]_vars

\* C21 witness: a read returned a byte, then a read_until failed on a
\* buffer that still holds bytes, with the delimiter at its start.
C21_Witness ==
    /\ wpc = "s_idle" /\ slast = "ValueError"
    /\ returned = <<"a">>
    /\ read_buffer = <<"r", "n">>
    /\ received = <<"a", "r", "n">>

Next ==
    \/ M_LoopCheck
    \/ \E h \in Handles : M_CleanupWait(h)
    \/ M_CleanupRemove
    \/ M_CleanupDone
    \/ \E h \in Handles : M_SpawnAdd(h)
    \/ M_Fork
    \/ M_SetPid
    \/ M_SpawnDone
    \/ M_Sleep
    \/ \E h \in Handles : M_StopWorker(h)
    \/ M_StopDone
    \/ M_ReapCheck
    \/ \E h \in Handles : M_ReapWait(h)
    \/ M_ReapRemove
    \/ M_ReapSleep
    \/ M_DieGracefully
    \/ M_DieImmediately
    \/ \E h \in Handles : C_Construct(h)
    \/ \E h \in Handles : C_InheritedQuit(h)
    \/ \E h \in Handles : C_InheritedTerm(h)
    \/ \E h \in Handles : C_Killed(h)

\* ------------------------------------------------- properties under Spec
\* C1: every forked child completes HornedWorkerProcess construction and
\* enters the accept loop, i.e. no child ends inside the constructor.
C1_StartupCompletes ==
    \A h \in Handles : cexit[h] # "AttributeError"

\* C2: once a graceful shutdown has ended the manager process, it ended by
\* returning from run before the reap deadline, with every handle reaped
\* and no forked child still running.
C2_GracefulShutdownCompletes ==
    mexit \in {"done", "AttributeError"} =>
        /\ mexit = "done"
        /\ workers = {}
        /\ \A h \in Handles : cstate[h] # "start"

\* C3: the pool repairs itself: a handle whose child has exited never
\* survives a second supervision cycle, and whenever the manager reaches
\* its 1 s sleep the live set holds worker_processes handles, none of them
\* for a child whose exit a cleanup pass has had the chance to observe.
C3_SelfRepair ==
    /\ \A h \in workers : cyc[h] <= 1
    /\ mpc = "sleep" =>
          /\ Cardinality(workers) = WorkerProcesses
          /\ \A h \in workers :
                \/ cstate[h] = "start"
                \/ cstate[h] = "exited" /\ cyc[h] = 0

\* C3 witness: a child has exited and been reaped, its handle is gone and
\* the pool is full again with the manager asleep.
C3_Witness ==
    /\ mpc = "sleep" /\ Running /\ malive
    /\ Cardinality(workers) = WorkerProcesses
    /\ \E h \in Handles : cstate[h] = "reaped" /\ h \notin workers

\* C6: once SIGTERM or SIGINT has ended the manager, it ended with
\* sys.exit(0) and every child forked and not yet reaped was sent SIGTERM.
C6_ImmediateStopSignalsAll ==
    mexit \in {"exit0", "TypeError", "OSError"} =>
        /\ mexit = "exit0"
        /\ \A h \in Handles : cstate[h] \in {"start", "exited"} => h \in termSent

\* C14: when the reap deadline has expired with handles still in the live
\* set and the manager has ended (not by SIGTERM or SIGINT), it ended by
\* returning from run.
C14_DeadlineExpiryExitsCleanly ==
    (/\ polls > DeadlinePolls /\ workers # {}
     /\ mexit \notin {"running", "exit0", "TypeError", "OSError"}) =>
        mexit = "done"

\* C17: a forked child runs nothing of the manager's: whatever reaches it
\* between the fork and its end (also a signal handled while it still
\* shares the manager's handlers), it sends no signal to a sibling.
C17_ChildLeavesSiblingsAlone ==
    \A h \in Handles : csent[h] = {}

\* C19: the live set never holds more than worker_processes handles and
\* holds exactly that many at every 1 s sleep; while the manager runs,
\* every handle in it that has a pid stands for a forked child not yet
\* waited for (so no two stand for the same process), but for the one
\* handle between its wait and its removal; no wait is made for a child
\* already reaped; a handle leaves the set only once its child is reaped,
\* and a child is reaped only from the exited state, through its handle in
\* the set, and stays reaped.
C19_LiveSetInvariant ==
    /\ [](/\ Cardinality(workers) <= WorkerProcesses
          /\ mpc = "sleep" => Cardinality(workers) = WorkerProcesses
          /\ \A h \in workers :
                (Running /\ hpid[h]) =>
                    \/ cstate[h] \in {"start", "exited"}
                    \/ h = cur /\ mpc \in {"cleanup_rm", "reap_rm"}
          /\ \A h \in todo :
                mpc \in {"cleanup", "reap_wait"} => cstate[h] # "reaped")
    /\ [][/\ \A h \in workers \ workers' : cstate[h] = "reaped"
          /\ \A h \in Handles :
                (cstate[h] # "reaped" /\ cstate'[h] = "reaped") =>
                    cstate[h] = "exited" /\ h \in workers
          /\ \A h \in Handles :
                cstate[h] = "reaped" => cstate'[h] = "reaped"]_vars

\* C19 witness: during a graceful shutdown one child has been reaped and
\* its handle removed while another handle is still in the set.
C19_Witness ==
    /\ mpc = "reap_wait" /\ workers # {}
    /\ \E h \in Handles : cstate[h] = "reaped" /\ h \notin workers /\ hpid[h]

Spec == Init /\ [][Next]_vars

====
